---- MODULE Spec2Model ----
(***************************************************************************)
(* Model of the cleaning stage of hr_data_insights                         *)
(* (src/src/hr_data_insights/cleaning.py) and of its configuration.        *)
(*                                                                         *)
(* A table is a record [columns, rows]: columns is the sequence of column  *)
(* labels, rows the sequence of rows, each row a sequence of cells aligned *)
(* with columns.  A label and a text value are sequences of one-character  *)
(* strings.  A cell is a record whose field k gives its kind:              *)
(*   [k |-> "na"]                      NaN / NaT / <NA>                     *)
(*   [k |-> "str",  s |-> chars]       a string that spells no date        *)
(*   [k |-> "dstr", fmt, y, m, d, hh, tz, off]                             *)
(*                                     a string that spells a timestamp    *)
(*   [k |-> "date", n |-> days]        datetime64 at midnight, in days     *)
(*                                     since 1970-01-01                    *)
(*   [k |-> "num",  v |-> i]           the age in years                    *)
(*   [k |-> "dec",  t |-> i]           a decimal with one place, in tenths *)
(***************************************************************************)
EXTENDS Integers, Sequences, FiniteSets, TLC

VARIABLES pc, heap, working, df0, as_of, minimum_age, err, result, call, ret,
          pipe

vars == <<pc, heap, working, df0, as_of, minimum_age, err, result, call, ret,
          pipe>>

-----------------------------------------------------------------------------
(* Bounds of the model.                                                    *)

MaxRows == 2

MaxSeries == 2

MaxHeaderLen == 3

-----------------------------------------------------------------------------
(* Generic helpers on sequences.                                           *)

RECURSIVE SelectIdx(_, _, _)
\* the increasing sequence of the indices i in from..n of which keep[i] holds
SelectIdx(keep, from, n) ==
  IF from > n THEN <<>>
  ELSE IF keep[from] THEN <<from>> \o SelectIdx(keep, from + 1, n)
       ELSE SelectIdx(keep, from + 1, n)

SeqSet(s) == {s[i] : i \in DOMAIN s}

Tuples(S, n) == UNION {[1..k -> S] : k \in 0..n}

-----------------------------------------------------------------------------
(* Calendar arithmetic of datetime64 values (proleptic Gregorian).         *)

DaysFromCivil(y, m, d) ==
  LET yy  == IF m <= 2 THEN y - 1 ELSE y
      era == yy \div 400
      yoe == yy - era * 400
      mp  == IF m > 2 THEN m - 3 ELSE m + 9
      doy == (153 * mp + 2) \div 5 + d - 1
      doe == yoe * 365 + yoe \div 4 - yoe \div 100 + doy
  IN  era * 146097 + doe - 719468

CivilFromDays(n) ==
  LET z   == n + 719468
      era == z \div 146097
      doe == z - era * 146097
      yoe == (doe - doe \div 1460 + doe \div 36524 - doe \div 146096) \div 365
      doy == doe - (365 * yoe + yoe \div 4 - yoe \div 100)
      mp  == (5 * doy + 2) \div 153
      d   == doy - (153 * mp + 2) \div 5 + 1
      m   == IF mp < 10 THEN mp + 3 ELSE mp - 9
      y   == yoe + era * 400 + (IF m <= 2 THEN 1 ELSE 0)
  IN  [year |-> y, month |-> m, day |-> d]

NA == [k |-> "na"]

IsNA(c) == c.k = "na"

DateCell(n) == [k |-> "date", n |-> n]

Str(s) == [k |-> "str", s |-> s]

-----------------------------------------------------------------------------
(* Characters and strings.  A string is a sequence of one-character        *)
(* strings; "TAB" stands for U+0009 and "BOM" for U+FEFF.                  *)

LowerLetters ==
  <<"a","b","c","d","e","f","g","h","i","j","k","l","m",
    "n","o","p","q","r","s","t","u","v","w","x","y","z">>

UpperLetters ==
  <<"A","B","C","D","E","F","G","H","I","J","K","L","M",
    "N","O","P","Q","R","S","T","U","V","W","X","Y","Z">>

IsUpper(c) == \E i \in 1..26 : UpperLetters[i] = c

IsLower(c) == \E i \in 1..26 : LowerLetters[i] = c

\* str.lower on one character
LowerChar(c) ==
  IF IsUpper(c) THEN LowerLetters[CHOOSE i \in 1..26 : UpperLetters[i] = c]
  ELSE c

\* str.upper on one character
UpperChar(c) ==
  IF IsLower(c) THEN UpperLetters[CHOOSE i \in 1..26 : LowerLetters[i] = c]
  ELSE c

\* str.isspace
IsSpace(c) == c \in {" ", "TAB"}

\* str.isprintable
IsPrintable(c) == c \notin {"TAB", "BOM"}

RECURSIVE LStrip(_)
LStrip(s) ==
  IF s # <<>> /\ IsSpace(Head(s)) THEN LStrip(Tail(s)) ELSE s

RECURSIVE RStrip(_)
RStrip(s) ==
  IF s # <<>> /\ IsSpace(s[Len(s)]) THEN RStrip(SubSeq(s, 1, Len(s) - 1)) ELSE s

\* str.strip()
Strip(s) == RStrip(LStrip(s))

\* str.replace(old, new) for one-character old and new
Replace(s, old, new) == [i \in DOMAIN s |-> IF s[i] = old THEN new ELSE s[i]]

\* "".join(filter(str.isprintable, s))
FilterPrintable(s) ==
  LET keep == [i \in DOMAIN s |-> IsPrintable(s[i])]
      idx  == SelectIdx(keep, 1, Len(s))
  IN  [j \in DOMAIN idx |-> s[idx[j]]]

\* str.lower()
Lower(s) == [i \in DOMAIN s |-> LowerChar(s[i])]

\* re.sub(r"\s+", " ", s): every maximal run of whitespace becomes one space
CollapseSpaces(s) ==
  LET keep == [i \in DOMAIN s |-> ~IsSpace(s[i]) \/ i = 1 \/ ~IsSpace(s[i - 1])]
      idx  == SelectIdx(keep, 1, Len(s))
  IN  [j \in DOMAIN idx |-> IF IsSpace(s[idx[j]]) THEN " " ELSE s[idx[j]]]

\* str.title(): a cased character is upper-cased when the character before it
\* is uncased (or it is the first one), lower-cased otherwise
Title(s) ==
  [i \in DOMAIN s |->
     IF i = 1 \/ ~(IsUpper(s[i - 1]) \/ IsLower(s[i - 1]))
     THEN UpperChar(s[i]) ELSE LowerChar(s[i])]

-----------------------------------------------------------------------------
(* Column labels and the dataset configuration (config.py).                *)

c_id == <<"i","d">>

c_employee_id == <<"e","m","p","l","o","y","e","e","_","i","d">>

c_first_name == <<"f","i","r","s","t","_","n","a","m","e">>

c_last_name == <<"l","a","s","t","_","n","a","m","e">>

c_birthdate == <<"b","i","r","t","h","d","a","t","e">>

c_hire_date == <<"h","i","r","e","_","d","a","t","e">>

c_termdate == <<"t","e","r","m","d","a","t","e">>

c_gender == <<"g","e","n","d","e","r">>

c_race == <<"r","a","c","e">>

c_department == <<"d","e","p","a","r","t","m","e","n","t">>

c_jobtitle == <<"j","o","b","t","i","t","l","e">>

c_location == <<"l","o","c","a","t","i","o","n">>

c_location_city == c_location \o <<"_","c","i","t","y">>

c_location_state == c_location \o <<"_","s","t","a","t","e">>

c_age == <<"a","g","e">>

c_tenure_years == <<"t","e","n","u","r","e","_","y","e","a","r","s">>

date_columns == <<c_birthdate, c_hire_date, c_termdate>>

string_titlecase_columns == <<c_first_name, c_last_name>>

categorical_normalise_columns ==
  <<c_gender, c_race, c_department, c_jobtitle,
    c_location, c_location_city, c_location_state>>

required_columns == <<c_id, c_birthdate, c_hire_date, c_gender, c_department>>

DefaultMinimumAge == 18

-----------------------------------------------------------------------------
(* Tables.                                                                 *)

HasColumn(t, name) == \E i \in DOMAIN t.columns : t.columns[i] = name

ColIndex(t, name) == CHOOSE i \in DOMAIN t.columns : t.columns[i] = name

\* df[name]: the column as a sequence of cells (a Series)
Column(t, name) ==
  LET i == ColIndex(t, name) IN [r \in DOMAIN t.rows |-> t.rows[r][i]]

\* df[name] = series: replaces the column, or appends it when it is new
SetColumn(t, name, series) ==
  IF HasColumn(t, name)
  THEN LET i == ColIndex(t, name)
       IN  [t EXCEPT !.rows =
              [r \in DOMAIN t.rows |-> [t.rows[r] EXCEPT ![i] = series[r]]]]
  ELSE [columns |-> Append(t.columns, name),
        rows    |-> [r \in DOMAIN t.rows |-> Append(t.rows[r], series[r])]]

\* df[mask]: the rows of which the mask holds, in order
FilterRows(t, mask) ==
  LET idx == SelectIdx(mask, 1, Len(t.rows))
  IN  [t EXCEPT !.rows = [j \in DOMAIN idx |-> t.rows[idx[j]]]]

EmptyTable == [columns |-> <<>>, rows |-> <<>>]

-----------------------------------------------------------------------------
(* cleaning.py: the pure parts of the cleaning routines.                   *)

\* the label without line 86, which replaces the spaces
CanonicaliseOneKeepingSpaces(column) ==
  Lower(FilterPrintable(Replace(Replace(Strip(column), "/", "_"), "-", "_")))

\* one label of canonicalise_column_names
CanonicaliseOne(column) ==
  Lower(FilterPrintable(
    Replace(Replace(Replace(Strip(column), "/", "_"), "-", "_"), " ", "_")))

canonicalise_column_names(columns) ==
  [i \in DOMAIN columns |-> CanonicaliseOne(columns[i])]

\* code point order of the characters that occur in canonical labels
Ord(c) ==
  IF IsLower(c) THEN 100 + (CHOOSE i \in 1..26 : LowerLetters[i] = c)
  ELSE IF c = "_" THEN 95
  ELSE IF IsUpper(c) THEN 60 + (CHOOSE i \in 1..26 : UpperLetters[i] = c)
  ELSE 0

RECURSIVE StrLess(_, _)
\* a < b on strings
StrLess(a, b) ==
  IF b = <<>> THEN FALSE
  ELSE IF a = <<>> THEN TRUE
  ELSE IF Head(a) = Head(b) THEN StrLess(Tail(a), Tail(b))
  ELSE Ord(Head(a)) < Ord(Head(b))

RECURSIVE Insert(_, _)
Insert(x, sorted) ==
  IF sorted = <<>> THEN <<x>>
  ELSE IF StrLess(Head(sorted), x) \/ Head(sorted) = x
       THEN <<Head(sorted)>> \o Insert(x, Tail(sorted))
       ELSE <<x>> \o sorted

RECURSIVE Sorted(_)
\* sorted(names)
Sorted(names) ==
  IF names = <<>> THEN <<>> ELSE Insert(Head(names), Sorted(Tail(names)))

\* [column for column in required if column not in df.columns]
MissingColumns(columns, required) ==
  LET keep == [i \in DOMAIN required |-> required[i] \notin SeqSet(columns)]
      idx  == SelectIdx(keep, 1, Len(required))
  IN  [j \in DOMAIN idx |-> required[idx[j]]]

NoError == [type |-> "none"]

\* the check that stops at the first missing column
validate_first_missing(columns, required) ==
  LET missing == MissingColumns(columns, required)
  IN  IF missing # <<>>
      THEN [type |-> "ValueError", names |-> <<Head(missing)>>]
      ELSE NoError

\* validate_required_columns: the error it raises, NoError when it returns.
\* names are the column names its message lists, in the order of the message.
validate_required_columns(columns, required) ==
  LET missing == MissingColumns(columns, required)
  IN  IF missing # <<>>
      THEN [type |-> "ValueError", names |-> Sorted(missing)]
      ELSE NoError

KeyError(name) == [type |-> "KeyError", key |-> name]

\* drop_duplicates with keep="last"
drop_duplicates_keep_last(t, name) ==
  LET ids  == Column(t, name)
      keep == [r \in DOMAIN t.rows |->
                 \A q \in (r + 1)..Len(t.rows) : ids[q] # ids[r]]
  IN  FilterRows(t, keep)

\* df.drop_duplicates(subset="id"): a row stays unless an earlier row has an
\* equal id (missing ids count as equal to each other)
drop_duplicates(t, name) ==
  LET ids  == Column(t, name)
      keep == [r \in DOMAIN t.rows |-> \A q \in 1..(r - 1) : ids[q] # ids[r]]
  IN  FilterRows(t, keep)

_rename_columns(t) ==
  [t EXCEPT !.columns =
     [i \in DOMAIN t.columns |->
        IF t.columns[i] = c_id THEN c_employee_id ELSE t.columns[i]]]

\* a cell that pd.to_datetime reads as missing
IsNullDate(c) == c.k = "na" \/ (c.k = "str" /\ c.s = <<>>)

\* the instant a timestamp string denotes, in hours since the epoch at UTC
\* (utc=True: a string without offset is taken to be UTC)
UtcHours(c) ==
  DaysFromCivil(c.y, c.m, c.d) * 24 + c.hh - (IF c.tz THEN c.off ELSE 0)

\* the parse that drops the offset instead of converting to UTC
ParseCellLocal(c) ==
  CASE c.k = "dstr" -> DateCell(DaysFromCivil(c.y, c.m, c.d))
    [] c.k = "date" -> c
    [] c.k = "str"  -> NA
    [] c.k = "na"   -> NA

\* pd.to_datetime(value, errors="coerce", utc=True), .dt.tz_convert(None),
\* .dt.floor("D") for one value parsed on its own
ParseCell(c) ==
  CASE c.k = "dstr" -> DateCell(UtcHours(c) \div 24)
    [] c.k = "date" -> c
    [] c.k = "str"  -> NA
    [] c.k = "na"   -> NA

\* The same for a whole column.  mode "each": every value is parsed on its
\* own.  mode "inferred": the format is guessed from the first non-null
\* value and a value in another format is coerced to NaT; when no format can
\* be guessed every value is parsed on its own.
ParseColumn(series, mode) ==
  LET nonnull == {i \in DOMAIN series : ~IsNullDate(series[i])}
      first   == IF nonnull = {} THEN NA
                 ELSE series[CHOOSE i \in nonnull : \A j \in nonnull : i <= j]
  IN  IF mode = "inferred" /\ first.k = "dstr"
      THEN [i \in DOMAIN series |->
              IF series[i].k = "dstr" /\ series[i].fmt # first.fmt
              THEN NA ELSE ParseCell(series[i])]
      ELSE [i \in DOMAIN series |-> ParseCell(series[i])]

RECURSIVE StandardiseFrom(_, _, _, _)
StandardiseFrom(t, columns, i, mode) ==
  IF i > Len(columns) THEN t
  ELSE IF ~HasColumn(t, columns[i]) THEN StandardiseFrom(t, columns, i + 1, mode)
  ELSE StandardiseFrom(
         SetColumn(t, columns[i], ParseColumn(Column(t, columns[i]), mode)),
         columns, i + 1, mode)

_standardise_dates(t, columns, mode) == StandardiseFrom(t, columns, 1, mode)

\* series.astype("string").str.strip().str.replace(r"\s+", " ", regex=True)
_standardise_text(series) ==
  [i \in DOMAIN series |->
     IF series[i].k = "str" THEN Str(CollapseSpaces(Strip(series[i].s)))
     ELSE series[i]]

\* series.astype("string").str.title()
TitleSeries(series) ==
  [i \in DOMAIN series |->
     IF series[i].k = "str" THEN Str(Title(series[i].s)) ELSE series[i]]

RECURSIVE NormaliseFrom(_, _, _)
NormaliseFrom(t, columns, i) ==
  IF i > Len(columns) THEN t
  ELSE IF ~HasColumn(t, columns[i]) THEN NormaliseFrom(t, columns, i + 1)
  ELSE NormaliseFrom(
         SetColumn(t, columns[i], _standardise_text(Column(t, columns[i]))),
         columns, i + 1)

RECURSIVE TitleFrom(_, _, _)
TitleFrom(t, columns, i) ==
  IF i > Len(columns) THEN t
  ELSE IF ~HasColumn(t, columns[i]) THEN TitleFrom(t, columns, i + 1)
  ELSE TitleFrom(
         SetColumn(t, columns[i], TitleSeries(Column(t, columns[i]))),
         columns, i + 1)

_normalise_text_columns(t, titlecase_columns, normalise_columns) ==
  TitleFrom(NormaliseFrom(t, normalise_columns, 1), titlecase_columns, 1)

\* pd.to_datetime(series, errors="coerce") on a column of dates
ToDatetime(c) ==
  CASE c.k = "date" -> c
    [] c.k = "str"  -> NA
    [] c.k = "na"   -> NA

\* the age without the birthday test
AgeOfYearsOnly(birthdate, asof) ==
  LET b == ToDatetime(birthdate)
  IN  IF IsNA(b) THEN NA
      ELSE [k |-> "num", v |-> CivilFromDays(asof).year - CivilFromDays(b.n).year]

\* the age with > for >= in line 122: the birthday itself does not count
AgeOfBirthdayNotCounted(birthdate, asof) ==
  LET b == ToDatetime(birthdate)
  IN  IF IsNA(b) THEN NA
      ELSE LET a  == CivilFromDays(asof)
               bd == CivilFromDays(b.n)
               has_had_birthday ==
                 \/ a.month > bd.month
                 \/ (a.month = bd.month /\ a.day > bd.day)
           IN  [k |-> "num",
                v |-> a.year - bd.year - (IF has_had_birthday THEN 0 ELSE 1)]

\* calculate_age for one record; asof is the normalised reference date
AgeOf(birthdate, asof) ==
  LET b == ToDatetime(birthdate)
  IN  IF IsNA(b) THEN NA
      ELSE LET a  == CivilFromDays(asof)
               bd == CivilFromDays(b.n)
               years == a.year - bd.year
               has_had_birthday ==
                 \/ a.month > bd.month
                 \/ (a.month = bd.month /\ a.day >= bd.day)
           IN  [k |-> "num", v |-> years - (IF has_had_birthday THEN 0 ELSE 1)]

calculate_age(birthdate, asof) ==
  [i \in DOMAIN birthdate |-> AgeOf(birthdate[i], asof)]

\* (days / 365.25).round(1), in tenths: the integer nearest to days * 40 / 1461
\* (80 * days is even and 1461 * (2 * k + 1) is odd, so there are no ties)
RoundTenths(days) == (80 * days + 1461) \div 2922

\* the tenure measured to the reference date whatever the termination date
TenureOfToAsOf(hire_date, termdate, asof) ==
  LET hire == ToDatetime(hire_date)
  IN  IF IsNA(hire) THEN NA
      ELSE LET tenure_days == asof - hire.n
           IN  IF tenure_days < 0 THEN NA
               ELSE [k |-> "dec", t |-> RoundTenths(tenure_days)]

\* the tenure without line 148, which blanks the negative ones
TenureOfUnguarded(hire_date, termdate, asof) ==
  LET hire == ToDatetime(hire_date)
      term == ToDatetime(termdate)
      end_date == IF IsNA(term) THEN DateCell(asof) ELSE term
  IN  IF IsNA(hire) THEN NA
      ELSE [k |-> "dec", t |-> RoundTenths(end_date.n - hire.n)]

\* the tenure of the absolute number of days
TenureOfAbsolute(hire_date, termdate, asof) ==
  LET hire == ToDatetime(hire_date)
      term == ToDatetime(termdate)
      end_date == IF IsNA(term) THEN DateCell(asof) ELSE term
  IN  IF IsNA(hire) THEN NA
      ELSE LET tenure_days == end_date.n - hire.n
           IN  [k |-> "dec",
                t |-> RoundTenths(IF tenure_days < 0 THEN -tenure_days
                                  ELSE tenure_days)]

\* calculate_tenure_years for one record
TenureOf(hire_date, termdate, asof) ==
  LET hire == ToDatetime(hire_date)
      term == ToDatetime(termdate)
      end_date == IF IsNA(term) THEN DateCell(asof) ELSE term
  IN  IF IsNA(hire) THEN NA
      ELSE LET tenure_days == end_date.n - hire.n
           IN  IF tenure_days < 0 THEN NA
               ELSE [k |-> "dec", t |-> RoundTenths(tenure_days)]

calculate_tenure_years(hire_date, termdate, asof) ==
  [i \in DOMAIN hire_date |-> TenureOf(hire_date[i], termdate[i], asof)]

\* the comparison the wrong way round
TermAfterHire(termdate, hire_date) ==
  /\ ~IsNA(termdate)
  /\ ~IsNA(hire_date)
  /\ termdate.n > hire_date.n

\* df["termdate"].notna() & (df["termdate"] < df["hire_date"]) for one record
TermBeforeHire(termdate, hire_date) ==
  /\ ~IsNA(termdate)
  /\ ~IsNA(hire_date)
  /\ termdate.n < hire_date.n

\* the enforcer with <= for <
enforce_not_later(t) ==
  LET term == Column(t, c_termdate)
      hire == Column(t, c_hire_date)
  IN  SetColumn(t, c_termdate,
        [r \in DOMAIN t.rows |->
           IF ~IsNA(term[r]) /\ ~IsNA(hire[r]) /\ term[r].n <= hire[r].n
           THEN NA ELSE term[r]])

_enforce_date_relationships(t) ==
  LET term == Column(t, c_termdate)
      hire == Column(t, c_hire_date)
  IN  SetColumn(t, c_termdate,
        [r \in DOMAIN t.rows |->
           IF TermBeforeHire(term[r], hire[r]) THEN NA ELSE term[r]])

\* the filter of analytics._filter_adult_employees, which drops absent ages
AgeFilterDropNA(t, minimum) ==
  LET age == Column(t, c_age)
  IN  FilterRows(t, [r \in DOMAIN t.rows |-> ~IsNA(age[r]) /\ age[r].v >= minimum])

\* working[working["age"].isna() | (working["age"] >= minimum_age)]
AgeFilter(t, minimum) ==
  LET age == Column(t, c_age)
  IN  FilterRows(t, [r \in DOMAIN t.rows |-> IsNA(age[r]) \/ age[r].v >= minimum])

-----------------------------------------------------------------------------
(* Inputs: the raw tables, reference dates and minimum ages the callers    *)
(* pass.                                                                   *)

\* a string that spells a timestamp: fmt names its layout, tz says whether
\* it carries an offset, off is that offset in hours
DateStr(fmt, y, m, d, hh, tz, off) ==
  [k |-> "dstr", fmt |-> fmt, y |-> y, m |-> m, d |-> d,
   hh |-> hh, tz |-> tz, off |-> off]

Mdy(y, m, d) == DateStr("mdy", y, m, d, 0, FALSE, 0)

Ymd(y, m, d) == DateStr("ymd", y, m, d, 0, FALSE, 0)

D(y, m, d) == DateCell(DaysFromCivil(y, m, d))

\* the people of the raw tables: the two of tests/test_cleaning.py, a minor
\* whose termination precedes the hire, someone without birthdate who left on
\* the day of the hire, and someone with an unreadable hire date and a
\* termination time stamped in another time zone
People ==
  { [birthdate  |-> Mdy(1990, 1, 15), hire_date |-> Ymd(2015, 3, 1),
     termdate   |-> DateStr("ts", 2019, 5, 2, 0, TRUE, 0),
     first_name |-> Str(<<"a","l">>), gender |-> Str(<<" ","f">>),
     department |-> Str(<<"S">>)],
    [birthdate  |-> Ymd(1992, 5, 1), hire_date |-> Mdy(2016, 4, 1),
     termdate   |-> Str(<<>>),
     first_name |-> Str(<<" "," ","m","a">>), gender |-> Str(<<"M">>),
     department |-> Str(<<"E">>)],
    [birthdate  |-> Ymd(2008, 2, 1), hire_date |-> Ymd(2020, 1, 1),
     termdate   |-> Ymd(2019, 5, 2),
     first_name |-> Str(<<"j","o"," ","d">>), gender |-> Str(<<"f"," "," ","x">>),
     department |-> Str(<<"S">>)],
    [birthdate  |-> Str(<<>>), hire_date |-> Ymd(2020, 1, 1),
     termdate   |-> Ymd(2020, 1, 1),
     first_name |-> NA, gender |-> NA,
     department |-> Str(<<"E">>)],
    [birthdate  |-> Mdy(1990, 1, 15), hire_date |-> Str(<<"?">>),
     termdate   |-> DateStr("ts", 2019, 12, 31, 22, TRUE, -5),
     first_name |-> Str(<<"A","L">>), gender |-> Str(<<"f">>),
     department |-> NA] }

Ids == {Str(<<"1">>), Str(<<"2">>), NA}

c_n == <<"n">>

\* the raw headers of a file, each with the field of a person it holds;
\* column "n" holds the number of the record in the file, column "race" the
\* same value for everyone
HeaderVariants ==
  { << [name |-> c_id, field |-> "id"],
       [name |-> <<"f","i","r","s","t"," ","n","a","m","e">>, field |-> "first_name"],
       [name |-> c_birthdate, field |-> "birthdate"],
       [name |-> c_hire_date, field |-> "hire_date"],
       [name |-> c_termdate, field |-> "termdate"],
       [name |-> c_gender, field |-> "gender"],
       [name |-> c_department, field |-> "department"],
       [name |-> c_race, field |-> "race"],
       [name |-> c_n, field |-> "n"] >>,
    << [name |-> <<"BOM","I","D">>, field |-> "id"],
       [name |-> <<"B","i","r","t","h","d","a","t","e"," ">>, field |-> "birthdate"],
       [name |-> <<"h","i","r","e","-","d","a","t","e">>, field |-> "hire_date"],
       [name |-> c_gender, field |-> "gender"],
       [name |-> c_department, field |-> "department"],
       [name |-> c_n, field |-> "n"] >>,
    << [name |-> c_id, field |-> "id"],
       [name |-> c_birthdate, field |-> "birthdate"],
       [name |-> <<"H","i","r","e","/","D","a","t","e">>, field |-> "hire_date"],
       [name |-> c_termdate, field |-> "termdate"],
       [name |-> c_n, field |-> "n"] >> }

Num(i) == [k |-> "num", v |-> i]

\* the raw table of a file with the given headers and records
RawTable(headers, ids, people) ==
  [columns |-> [i \in DOMAIN headers |-> headers[i].name],
   rows    |-> [r \in DOMAIN people |->
                  [i \in DOMAIN headers |->
                     CASE headers[i].field = "id" -> ids[r]
                       [] headers[i].field = "n"  -> Num(r)
                       [] headers[i].field = "race" -> Str(<<"w">>)
                       [] OTHER -> people[r][headers[i].field]]]]

RawTables ==
  UNION { { RawTable(h, ids, people) :
              h \in HeaderVariants,
              ids \in [1..n -> Ids],
              people \in [1..n -> People] } : n \in 0..MaxRows }

\* a pd.Timestamp, in hours since the epoch
Ts(y, m, d, hh) == [k |-> "ts", h |-> DaysFromCivil(y, m, d) * 24 + hh]

\* the as_of arguments of clean_dataset: None, or the date of the tests
AsOfArgs == {NA, Ts(2024, 1, 1, 0)}

\* pd.Timestamp.today().normalize(), in days
Todays == {DaysFromCivil(2024, 2, 1)}

MinimumAges == {DefaultMinimumAge, 16}

-----------------------------------------------------------------------------
(* clean_dataset, one action per statement.  heap holds the two table      *)
(* objects of a call, the caller's ("df") and the one the function creates *)
(* ("local"); working is the object the local name `working` is bound to.  *)

\* as_of = today().normalize() if as_of is None else Timestamp(as_of).normalize()
Normalise(asof, today) == IF IsNA(asof) THEN today ELSE asof.h \div 24

\* no copy: the same object
DfAlias(ref) == ref

\* df.copy(): the object the copy is
DfCopy(ref) == "local"

\* run_pipeline before it is called: where it is, and what it has done
NoPipe ==
  [stage |-> "none", validated |-> FALSE, messages |-> <<>>,
   written |-> FALSE, output |-> EmptyTable, analysed |-> FALSE]

Init ==
  /\ pc = "idle"
  /\ heap = [df |-> EmptyTable, local |-> EmptyTable]
  /\ working = "none"
  /\ df0 = EmptyTable
  /\ as_of = NA
  /\ minimum_age = DefaultMinimumAge
  /\ err = NoError
  /\ result = EmptyTable
  /\ call = [fn |-> "none"]
  /\ ret = <<>>
  /\ pipe = NoPipe

\* a caller invokes clean_dataset(df, config, as_of=a, minimum_age=m)
CallCleanDataset ==
  /\ pc = "idle"
  /\ \E t \in RawTables, a \in AsOfArgs, m \in MinimumAges :
       /\ heap' = [heap EXCEPT !.df = t]
       /\ df0' = t
       /\ as_of' = a
       /\ minimum_age' = m
  /\ call' = [fn |-> "clean_dataset"]
  /\ pc' = "l43"
  /\ UNCHANGED <<working, err, result, ret, pipe>>

\* line 43: working = df.copy()
Copy ==
  /\ pc = "l43"
  /\ working' = DfCopy("df")
  /\ heap' = [heap EXCEPT ![DfCopy("df")] = heap.df]
  /\ pc' = "l44"
  /\ UNCHANGED <<df0, as_of, minimum_age, err, result, call, ret, pipe>>

\* line 44: working.columns = canonicalise_column_names(working.columns)
Canonicalise ==
  /\ pc = "l44"
  /\ heap' = [heap EXCEPT ![working].columns = canonicalise_column_names(@)]
  /\ pc' = "l45"
  /\ UNCHANGED <<working, df0, as_of, minimum_age, err, result, call, ret, pipe>>

\* line 45: validate_required_columns(working, config.required_columns)
ValidateRequired ==
  /\ pc = "l45"
  /\ LET e == validate_required_columns(heap[working].columns, required_columns)
     IN  /\ err' = e
         /\ pc' = IF e = NoError THEN "l47" ELSE "raised"
  /\ UNCHANGED <<heap, working, df0, as_of, minimum_age, result, call, ret, pipe>>

\* line 47: working = working.drop_duplicates(subset="id").reset_index(drop=True)
Deduplicate ==
  /\ pc = "l47"
  /\ heap' = [heap EXCEPT !.local = drop_duplicates(heap[working], c_id)]
  /\ working' = "local"
  /\ pc' = "l48"
  /\ UNCHANGED <<df0, as_of, minimum_age, err, result, call, ret, pipe>>

\* line 48: working = _rename_columns(working)
Rename ==
  /\ pc = "l48"
  /\ heap' = [heap EXCEPT !.local = _rename_columns(heap[working])]
  /\ working' = "local"
  /\ pc' = "l50"
  /\ UNCHANGED <<df0, as_of, minimum_age, err, result, call, ret, pipe>>

\* line 50: working = _standardise_dates(working, config.date_columns)
StandardiseDates ==
  /\ pc = "l50"
  /\ \E mode \in {"each", "inferred"} :
       heap' = [heap EXCEPT ![working] = _standardise_dates(@, date_columns, mode)]
  /\ pc' = "l51"
  /\ UNCHANGED <<working, df0, as_of, minimum_age, err, result, call, ret, pipe>>

\* lines 51-55: working = _normalise_text_columns(working, ...)
NormaliseText ==
  /\ pc = "l51"
  /\ heap' = [heap EXCEPT ![working] =
                _normalise_text_columns(@, string_titlecase_columns,
                                        categorical_normalise_columns)]
  /\ pc' = "l57"
  /\ UNCHANGED <<working, df0, as_of, minimum_age, err, result, call, ret, pipe>>

\* lines 57-60: working["age"] = calculate_age(working["birthdate"], as_of=as_of)
ComputeAge ==
  /\ pc = "l57"
  /\ \E today \in Todays :
       heap' = [heap EXCEPT ![working] =
                  SetColumn(@, c_age,
                    calculate_age(Column(@, c_birthdate), Normalise(as_of, today)))]
  /\ pc' = "l62"
  /\ UNCHANGED <<working, df0, as_of, minimum_age, err, result, call, ret, pipe>>

\* lines 62-63: working = working[age.isna() | (age >= minimum_age)];
\* working["age"] = working["age"].astype("Int64")
FilterAge ==
  /\ pc = "l62"
  /\ heap' = [heap EXCEPT !.local = AgeFilter(heap[working], minimum_age)]
  /\ working' = "local"
  /\ pc' = "l65"
  /\ UNCHANGED <<df0, as_of, minimum_age, err, result, call, ret, pipe>>

\* lines 65-69: working["tenure_years"] = calculate_tenure_years(
\*   working["hire_date"], working["termdate"], as_of=as_of)
ComputeTenure ==
  /\ pc = "l65"
  /\ IF ~HasColumn(heap[working], c_termdate)
     THEN /\ err' = KeyError(c_termdate)
          /\ pc' = "raised"
          /\ UNCHANGED heap
     ELSE /\ \E today \in Todays :
               heap' = [heap EXCEPT ![working] =
                          SetColumn(@, c_tenure_years,
                            calculate_tenure_years(Column(@, c_hire_date),
                                                   Column(@, c_termdate),
                                                   Normalise(as_of, today)))]
          /\ pc' = "l71"
          /\ UNCHANGED err
  /\ UNCHANGED <<working, df0, as_of, minimum_age, result, call, ret, pipe>>

\* line 71: working = _enforce_date_relationships(working)
Enforce ==
  /\ pc = "l71"
  /\ heap' = [heap EXCEPT ![working] = _enforce_date_relationships(@)]
  /\ pc' = "l73"
  /\ UNCHANGED <<working, df0, as_of, minimum_age, err, result, call, ret, pipe>>

\* line 73: return working
Return ==
  /\ pc = "l73"
  /\ result' = heap[working]
  /\ pc' = "done"
  /\ UNCHANGED <<heap, working, df0, as_of, minimum_age, err, call, ret, pipe>>

-----------------------------------------------------------------------------
(* Direct calls of the public functions of cleaning.py, each one step.     *)
(* call records the function and its arguments, ret what it returns (for   *)
(* validate_required_columns: the error it raises, or NoError).            *)

BirthDates == {NA, D(1990, 1, 15), D(2000, 2, 29), D(2008, 2, 1), D(2024, 1, 1)}

HireDates == {NA, D(2015, 3, 1), D(2016, 4, 1), D(2020, 1, 1)}

TermDates == {NA, D(2019, 5, 2), D(2020, 1, 1), D(2024, 6, 1)}

\* None, the dates of the tests and of the examples, a time of day, and a
\* date before some of the hire dates
CalcAsOfs ==
  {NA, Ts(2024, 1, 1, 0), Ts(2024, 2, 1, 13), Ts(2023, 2, 28, 0), Ts(2015, 6, 1, 0)}

CallCalculateAge ==
  /\ pc = "idle"
  /\ \E b \in Tuples(BirthDates, MaxSeries), a \in CalcAsOfs, today \in Todays :
       /\ call' = [fn |-> "calculate_age", birthdate |-> b,
                   as_of |-> a, today |-> today]
       /\ ret' = calculate_age(b, Normalise(a, today))
  /\ pc' = "returned"
  /\ UNCHANGED <<heap, working, df0, as_of, minimum_age, err, result, pipe>>

CallCalculateTenureYears ==
  /\ pc = "idle"
  /\ \E n \in 0..MaxSeries :
       \E h \in [1..n -> HireDates], t \in [1..n -> TermDates],
          a \in CalcAsOfs, today \in Todays :
         /\ call' = [fn |-> "calculate_tenure_years", hire_date |-> h,
                     termdate |-> t, as_of |-> a, today |-> today]
         /\ ret' = calculate_tenure_years(h, t, Normalise(a, today))
  /\ pc' = "returned"
  /\ UNCHANGED <<heap, working, df0, as_of, minimum_age, err, result, pipe>>

\* tables of cleaned records: identifier, hire and termination date, and a
\* tenure that need not agree with them
EnforceTables ==
  UNION { { [columns |-> <<c_employee_id, c_hire_date, c_termdate, c_tenure_years>>,
             rows    |-> [r \in 1..n |->
                            <<Num(r), h[r], t[r],
                              IF r = 1 THEN NA ELSE [k |-> "dec", t |-> 42]>>]] :
              h \in [1..n -> HireDates], t \in [1..n -> TermDates] } :
          n \in 0..MaxSeries }

CallEnforce ==
  /\ pc = "idle"
  /\ \E t \in EnforceTables :
       /\ call' = [fn |-> "_enforce_date_relationships", df |-> t]
       /\ ret' = _enforce_date_relationships(t)
  /\ pc' = "returned"
  /\ UNCHANGED <<heap, working, df0, as_of, minimum_age, err, result, pipe>>

\* the characters of raw headers: a lower-case and an upper-case letter, the
\* characters that are replaced, a whitespace character and a byte-order mark
\* that are not printable, and the underscore
HeaderChars == {"a", "B", " ", "/", "-", "_", "TAB", "BOM"}

RawHeaders == Tuples(HeaderChars, MaxHeaderLen)

\* headers that stand next to the raw header in a header list
OtherHeaders == {<<"BOM","I","D">>, <<" ","H","i","r","e"," ","D","a","t","e">>, c_gender}

CallCanonicalise ==
  /\ pc = "idle"
  /\ \E h \in RawHeaders :
       \E columns \in {<<h>>} \cup {<<h, g>> : g \in OtherHeaders}
                            \cup {<<g, h>> : g \in OtherHeaders} :
         /\ call' = [fn |-> "canonicalise_column_names", columns |-> columns]
         /\ ret' = canonicalise_column_names(columns)
  /\ pc' = "returned"
  /\ UNCHANGED <<heap, working, df0, as_of, minimum_age, err, result, pipe>>

\* values of a date column: missing, empty, unreadable, two layouts of a
\* date, two timestamps whose date at UTC is not their local date, and a
\* value that is a date already
DateInputs ==
  {NA, Str(<<>>), Str(<<"?">>), Ymd(2020, 1, 1), Mdy(2020, 1, 1),
   DateStr("ts", 2019, 12, 31, 22, TRUE, -5),
   DateStr("ts", 2020, 1, 1, 1, TRUE, 2), D(2019, 5, 2)}

\* tables with one configured date column and a column that is not one
DateTables ==
  UNION { { [columns |-> <<c_hire_date, c_n>>,
             rows    |-> [r \in 1..n |-> <<h[r], Num(r)>>]] :
              h \in [1..n -> DateInputs] } : n \in 0..MaxSeries }

CallStandardiseDates ==
  /\ pc = "idle"
  /\ \E t \in DateTables, mode \in {"each", "inferred"} :
       /\ call' = [fn |-> "_standardise_dates", df |-> t]
       /\ ret' = _standardise_dates(t, date_columns, mode)
  /\ pc' = "returned"
  /\ UNCHANGED <<heap, working, df0, as_of, minimum_age, err, result, pipe>>

\* the header sets the check is called with: any canonical headers among
\* the required ones and termdate, in the order of the file
CheckedHeaders ==
  LET all == <<c_id, c_birthdate, c_hire_date, c_termdate, c_gender, c_department>>
  IN  { LET idx == SelectIdx([i \in 1..Len(all) |-> i \in S], 1, Len(all))
        IN  [j \in DOMAIN idx |-> all[idx[j]]] : S \in SUBSET (1..Len(all)) }

CallValidateRequiredColumns ==
  /\ pc = "idle"
  /\ \E columns \in CheckedHeaders :
       /\ call' = [fn |-> "validate_required_columns", columns |-> columns,
                   required |-> required_columns]
       /\ ret' = validate_required_columns(columns, required_columns)
  /\ pc' = "returned"
  /\ UNCHANGED <<heap, working, df0, as_of, minimum_age, err, result, pipe>>

-----------------------------------------------------------------------------
(* validation.py.  A message is a record: msg names the sentence, count    *)
(* and sample are the values the sentence is formatted with.               *)

\* the first five of the distinct values of employee_id that occur again
DuplicateSample(ids) ==
  LET dup   == [r \in DOMAIN ids |-> \E q \in 1..(r - 1) : ids[q] = ids[r]]
      first == [r \in DOMAIN ids |->
                  dup[r] /\ \A q \in 1..(r - 1) : ~(dup[q] /\ ids[q] = ids[r])]
      idx   == SelectIdx(first, 1, Len(ids))
  IN  [j \in 1..(IF Len(idx) < 5 THEN Len(idx) ELSE 5) |-> ids[idx[j]]]

validate_unique_employee_id(t) ==
  IF ~HasColumn(t, c_employee_id)
  THEN <<[msg |-> "employee_id not present"]>>
  ELSE LET ids == Column(t, c_employee_id)
       IN  (IF \E r \in DOMAIN ids : IsNA(ids[r])
            THEN <<[msg |-> "null employee_id"]>> ELSE <<>>)
           \o
           (IF DuplicateSample(ids) # <<>>
            THEN <<[msg |-> "duplicate employee_id",
                    sample |-> DuplicateSample(ids)]>>
            ELSE <<>>)

validate_chronology(t) ==
  IF ~HasColumn(t, c_hire_date) \/ ~HasColumn(t, c_termdate) THEN <<>>
  ELSE LET term == Column(t, c_termdate)
           hire == Column(t, c_hire_date)
           invalid == {r \in DOMAIN t.rows : TermBeforeHire(term[r], hire[r])}
       IN  IF invalid # {}
           THEN <<[msg |-> "termination before hire",
                   count |-> Cardinality(invalid)]>>
           ELSE <<>>

ValidationMinimumAge == 16

ValidationMaximumAge == 90

validate_age_bounds(t) ==
  IF ~HasColumn(t, c_age) THEN <<>>
  ELSE LET age == Column(t, c_age)
           too_young == {r \in DOMAIN age :
                           ~IsNA(age[r]) /\ age[r].v < ValidationMinimumAge}
           too_old   == {r \in DOMAIN age :
                           ~IsNA(age[r]) /\ age[r].v > ValidationMaximumAge}
       IN  (IF too_young # {}
            THEN <<[msg |-> "below the minimum age",
                    count |-> Cardinality(too_young)]>> ELSE <<>>)
           \o
           (IF too_old # {}
            THEN <<[msg |-> "exceed the maximum age",
                    count |-> Cardinality(too_old)]>> ELSE <<>>)

run_validations(t) ==
  validate_unique_employee_id(t) \o validate_chronology(t) \o validate_age_bounds(t)

-----------------------------------------------------------------------------
(* io.py.                                                                  *)

RECURSIVE LStripBom(_)
\* column.lstrip("﻿")
LStripBom(s) ==
  IF s # <<>> /\ Head(s) = "BOM" THEN LStripBom(Tail(s)) ELSE s

_strip_bom_columns(t) ==
  [t EXCEPT !.columns = [i \in DOMAIN t.columns |-> LStripBom(t.columns[i])]]

FileNotFoundError == [type |-> "FileNotFoundError"]

\* what is at the input path: a file with a raw table, or nothing
InputFiles == RawTables \cup {[missing |-> TRUE]}

-----------------------------------------------------------------------------
(* analytics.py.                                                           *)

AdultAge == 18

c_employee_count == <<"e","m","p","l","o","y","e","e","_","c","o","u","n","t">>

_filter_adult_employees(t) ==
  LET age == Column(t, c_age)
  IN  FilterRows(t, [r \in DOMAIN t.rows |-> ~IsNA(age[r]) /\ age[r].v >= AdultAge])

\* terminated_count / total_headcount as a float: x / 0 is inf, 0 / 0 is NaN
Rate(num, den) == [num |-> num, den |-> den]

IsNaNRate(x) == x.den = 0 /\ x.num = 0

IsInfRate(x) == x.den = 0 /\ x.num > 0

\* a sorts before b in sort_values(ascending=False): NaN goes last
RateBefore(a, b) ==
  /\ ~IsNaNRate(a)
  /\ \/ IsNaNRate(b)
     \/ (IsInfRate(a) /\ ~IsInfRate(b))
     \/ (~IsInfRate(a) /\ ~IsInfRate(b) /\ a.num * b.den > b.num * a.den)

RECURSIVE InsertByRate(_, _)
InsertByRate(x, sorted) ==
  IF sorted = <<>> \/ ~RateBefore(Head(sorted).turnover_rate, x.turnover_rate)
  THEN <<x>> \o sorted
  ELSE <<Head(sorted)>> \o InsertByRate(x, Tail(sorted))

RECURSIVE SortByRate(_)
\* summary.sort_values("turnover_rate", ascending=False)
SortByRate(rows) ==
  IF rows = <<>> THEN <<>>
  ELSE InsertByRate(Head(rows), SortByRate(Tail(rows)))

\* department_turnover; today is pd.Timestamp.today(), in days (termination
\* dates are at midnight, so that the time of day of today is immaterial)
department_turnover(t, today) ==
  LET adults == _filter_adult_employees(t)
      term   == Column(adults, c_termdate)
      dept   == Column(adults, c_department)
      ids    == Column(adults, c_employee_id)
      terminated_mask ==
        [r \in DOMAIN adults.rows |-> ~IsNA(term[r]) /\ term[r].n <= today]
      \* groupby("department"): the groups of the present values, sorted
      first  == [r \in DOMAIN dept |->
                   ~IsNA(dept[r]) /\ \A q \in 1..(r - 1) : dept[q] # dept[r]]
      idx    == SelectIdx(first, 1, Len(dept))
      keys   == Sorted([j \in DOMAIN idx |-> dept[idx[j]].s])
      summary ==
        [j \in DOMAIN keys |->
           LET members == {r \in DOMAIN dept : dept[r] = Str(keys[j])}
               total_headcount == Cardinality({r \in members : ~IsNA(ids[r])})
               terminated_count == Cardinality({r \in members : terminated_mask[r]})
           IN  [department       |-> keys[j],
                total_headcount  |-> total_headcount,
                terminated_count |-> terminated_count,
                active_count     |-> total_headcount - terminated_count,
                turnover_rate    |-> Rate(terminated_count, total_headcount)]]
  IN  SortByRate(summary)

\* calculate_all_metrics: the error it raises.  gender_breakdown reads age,
\* gender and employee_id; race_breakdown groups by race and then sorts by
\* employee_count, a column that exists only after the rename of line 29, so
\* that no call reaches the return.
calculate_all_metrics(t) ==
  IF ~HasColumn(t, c_age) THEN KeyError(c_age)
  ELSE IF ~HasColumn(t, c_gender) THEN KeyError(c_gender)
  ELSE IF ~HasColumn(t, c_employee_id) THEN KeyError(c_employee_id)
  ELSE IF ~HasColumn(t, c_race) THEN KeyError(c_race)
  ELSE KeyError(c_employee_count)

-----------------------------------------------------------------------------
(* pipeline.py: run_pipeline, one action per statement.                    *)

\* the error of clean_dataset caught and dropped
AfterCleanSwallowed(p) == "l52"

\* where run_pipeline goes when clean_dataset has ended in pc value p: an
\* error of clean_dataset propagates
AfterClean(p) == IF p = "raised" THEN "raised" ELSE "l52"

\* lines 45-46: raw_df = io.load_raw_dataset(config, path_override=input_path)
LoadRawDataset ==
  /\ pc = "idle"
  /\ \E file \in InputFiles :
       IF "missing" \in DOMAIN file
       THEN /\ err' = FileNotFoundError
            /\ pipe' = [pipe EXCEPT !.stage = "raised"]
            /\ pc' = "loadfailed"
            /\ UNCHANGED heap
       ELSE /\ heap' = [heap EXCEPT !.df = _strip_bom_columns(file)]
            /\ pipe' = [pipe EXCEPT !.stage = "l49"]
            /\ pc' = "loaded"
            /\ UNCHANGED err
  /\ UNCHANGED <<working, df0, as_of, minimum_age, result, call, ret>>

\* lines 48-49: cleaned_df = cleaning.clean_dataset(raw_df, config), the call
PipelineCallCleanDataset ==
  /\ pc = "loaded"
  /\ df0' = heap.df
  /\ as_of' = NA
  /\ minimum_age' = DefaultMinimumAge
  /\ call' = [fn |-> "clean_dataset"]
  /\ pc' = "l43"
  /\ UNCHANGED <<heap, working, err, result, ret, pipe>>

\* line 49: clean_dataset returns to run_pipeline, or raises through it
PipelineCleanEnds ==
  /\ pipe.stage = "l49"
  /\ pc \in {"done", "raised"}
  /\ pipe' = [pipe EXCEPT !.stage = AfterClean(pc)]
  /\ UNCHANGED <<pc, heap, working, df0, as_of, minimum_age, err, result, call, ret>>

\* lines 51-54: validation_messages = validation.run_validations(cleaned_df)
PipelineValidate ==
  /\ pipe.stage = "l52"
  /\ pipe' = [pipe EXCEPT !.stage = "l57", !.validated = TRUE,
                          !.messages = run_validations(result)]
  /\ UNCHANGED <<pc, heap, working, df0, as_of, minimum_age, err, result, call, ret>>

\* lines 56-61: output_csv = io.write_clean_dataset(cleaned_df, config, ...)
PipelineWrite ==
  /\ pipe.stage = "l57"
  /\ pipe' = [pipe EXCEPT !.stage = "l63", !.written = TRUE, !.output = result]
  /\ UNCHANGED <<pc, heap, working, df0, as_of, minimum_age, err, result, call, ret>>

\* lines 63-66: metrics = analytics.calculate_all_metrics(cleaned_df) if
\* compute_metrics, the argument of run_pipeline that is read here
PipelineAnalytics ==
  /\ pipe.stage = "l63"
  /\ \E compute_metrics \in BOOLEAN :
       IF compute_metrics
       THEN /\ err' = calculate_all_metrics(result)
            /\ pipe' = [pipe EXCEPT !.stage = "raised", !.analysed = TRUE]
       ELSE /\ pipe' = [pipe EXCEPT !.stage = "l68"]
            /\ UNCHANGED err
  /\ UNCHANGED <<pc, heap, working, df0, as_of, minimum_age, result, call, ret>>

\* lines 68-73: return {"cleaned": cleaned_df, ...}
PipelineReturn ==
  /\ pipe.stage = "l68"
  /\ pipe' = [pipe EXCEPT !.stage = "returned"]
  /\ UNCHANGED <<pc, heap, working, df0, as_of, minimum_age, err, result, call, ret>>

\* a caller of clean_dataset passes the cleaned table to
\* analytics.department_turnover
CallDepartmentTurnover ==
  /\ pc = "done"
  /\ pipe.stage = "none"
  /\ \E today \in Todays :
       /\ call' = [fn |-> "department_turnover", today |-> today]
       /\ ret' = department_turnover(result, today)
  /\ pc' = "analysed"
  /\ UNCHANGED <<heap, working, df0, as_of, minimum_age, err, result, pipe>>

Next ==
  \/ CallCleanDataset \/ Copy \/ Canonicalise \/ ValidateRequired
  \/ Deduplicate \/ Rename \/ StandardiseDates \/ NormaliseText
  \/ ComputeAge \/ FilterAge \/ ComputeTenure \/ Enforce \/ Return
  \/ CallCalculateAge \/ CallCalculateTenureYears \/ CallEnforce
  \/ CallValidateRequiredColumns \/ CallCanonicalise \/ CallStandardiseDates
  \/ LoadRawDataset \/ PipelineCallCleanDataset \/ PipelineCleanEnds
  \/ PipelineValidate \/ PipelineWrite \/ PipelineAnalytics \/ PipelineReturn
  \/ CallDepartmentTurnover

Spec == Init /\ [][Next]_vars

TypeOK == pc \in {"idle", "l43", "l44", "l45", "l47", "l48", "l50", "l51",
                  "l57", "l62", "l65", "l71", "l73", "done", "raised",
                  "returned", "loaded", "loadfailed", "analysed"}

-----------------------------------------------------------------------------
(* Properties.                                                             *)

Cell(t, r, name) == t.rows[r][ColIndex(t, name)]

IsDate(c) == c.k = "date"

\* the raw table of the running call under its canonical headers
RawCanon == [df0 EXCEPT !.columns = canonicalise_column_names(@)]

\* the record numbers (column n) of the rows of a table
Origins(t) == {Cell(t, r, c_n).v : r \in DOMAIN t.rows}

\* record i of the raw table is the first one with its identifier
FirstOccurrence(i) ==
  \A j \in 1..(i - 1) : Cell(RawCanon, j, c_id) # Cell(RawCanon, i, c_id)

\* C1: in the table clean_dataset returns no two records have the same
\* employee_id, and every record is the first record of the raw table with
\* its identifier
C1_OnlyFirstOccurrences ==
  pc = "done" =>
    /\ \A r, q \in DOMAIN result.rows :
         r # q => Cell(result, r, c_employee_id) # Cell(result, q, c_employee_id)
    /\ \A r \in DOMAIN result.rows :
         LET i == Cell(result, r, c_n).v
         IN  /\ Cell(result, r, c_employee_id) = Cell(RawCanon, i, c_id)
             /\ FirstOccurrence(i)

\* two raw records share an identifier, the first of them was removed by the
\* age filter, and neither is in the output
C1_Witness ==
  /\ pc = "done"
  /\ \E i, j \in DOMAIN df0.rows :
       /\ i < j
       /\ FirstOccurrence(i)
       /\ Cell(RawCanon, i, c_id) = Cell(RawCanon, j, c_id)
       /\ i \notin Origins(result)
       /\ j \notin Origins(result)

\* a present termination date earlier than the hire date
Earlier(termdate, hire_date) ==
  IsDate(termdate) /\ IsDate(hire_date) /\ termdate.n < hire_date.n

NoTermBeforeHire(t) ==
  \A r \in DOMAIN t.rows :
    ~Earlier(Cell(t, r, c_termdate), Cell(t, r, c_hire_date))

\* C2: after clean_dataset, and after _enforce_date_relationships on any
\* table, no record has a present termination date earlier than its hire date
C2_NoTerminationBeforeHire ==
  /\ pc = "done" => NoTermBeforeHire(result)
  /\ (pc = "returned" /\ call.fn = "_enforce_date_relationships")
       => NoTermBeforeHire(ret)

\* clean_dataset returned a record whose raw termination date was earlier
\* than its raw hire date
C2_Witness ==
  /\ pc = "done"
  /\ \E r \in DOMAIN result.rows :
       LET i == Cell(result, r, c_n).v
           t == Cell(RawCanon, i, c_termdate)
           h == Cell(RawCanon, i, c_hire_date)
       IN  /\ t.k = "dstr" /\ h.k = "dstr"
           /\ DaysFromCivil(t.y, t.m, t.d) < DaysFromCivil(h.y, h.m, h.d)

\* after is before, but for the termination dates that were earlier than the
\* hire date
EnforcerFrame(before, after) ==
  /\ after.columns = before.columns
  /\ Len(after.rows) = Len(before.rows)
  /\ \A r \in DOMAIN before.rows :
       \A i \in DOMAIN before.columns :
         \/ after.rows[r][i] = before.rows[r][i]
         \/ /\ before.columns[i] = c_termdate
            /\ Earlier(before.rows[r][i], Cell(before, r, c_hire_date))

\* C3: the chronology enforcer drops no record and changes no field, except
\* the termination dates that are present and strictly earlier than the hire
\* date
C3_EnforcerChangesOnlyEarlierTermdates ==
  [][ /\ pc = "l71" => EnforcerFrame(heap[working], heap'[working'])
      /\ (pc = "idle" /\ call'.fn = "_enforce_date_relationships")
           => EnforcerFrame(call'.df, ret') ]_vars

\* the enforcer was given a record that left on the day of the hire and one
\* that left before it, and changed the table
C3_Witness ==
  /\ pc = "returned"
  /\ call.fn = "_enforce_date_relationships"
  /\ ret # call.df
  /\ \E r \in DOMAIN call.df.rows :
       /\ IsDate(Cell(call.df, r, c_termdate))
       /\ Cell(call.df, r, c_termdate) = Cell(call.df, r, c_hire_date)
  /\ \E r \in DOMAIN call.df.rows :
       Earlier(Cell(call.df, r, c_termdate), Cell(call.df, r, c_hire_date))

\* as_of.year - birthdate.year, minus 1 when (as_of.month, as_of.day) is
\* lexicographically smaller than (birthdate.month, birthdate.day)
ExpectedAge(birthdate, asof) ==
  LET a == CivilFromDays(asof)
      b == CivilFromDays(birthdate)
      smaller == \/ a.month < b.month
                 \/ (a.month = b.month /\ a.day < b.day)
  IN  a.year - b.year - (IF smaller THEN 1 ELSE 0)

AgesAsExpected(birthdate, asof, age) ==
  \A i \in DOMAIN birthdate :
    IF IsDate(birthdate[i])
    THEN age[i] = Num(ExpectedAge(birthdate[i].n, asof))
    ELSE IsNA(age[i])

\* C4: calculate_age returns as_of.year - birthdate.year, minus 1 exactly when
\* (as_of.month, as_of.day) < (birthdate.month, birthdate.day), and an absent
\* age for an absent birthdate; birthdate 1990-01-15 gives 33 at 2024-01-01
\* and 34 at 2024-02-01
C4_AgeIsCalendarYears ==
  /\ (pc = "returned" /\ call.fn = "calculate_age") =>
       /\ Len(ret) = Len(call.birthdate)
       /\ AgesAsExpected(call.birthdate, Normalise(call.as_of, call.today), ret)
       /\ \A i \in DOMAIN ret :
            call.birthdate[i] = DateCell(7319) =>
              /\ call.as_of = [k |-> "ts", h |-> 19723 * 24] => ret[i] = Num(33)
              /\ call.as_of = [k |-> "ts", h |-> 19754 * 24 + 13] => ret[i] = Num(34)
  /\ pc = "l62" =>
       \E today \in Todays :
         AgesAsExpected(Column(heap[working], c_birthdate),
                        Normalise(as_of, today), Column(heap[working], c_age))

\* calculate_age was called with birthdate 1990-01-15 and as_of 2024-01-01
\* and returned 33 for it
C4_Witness ==
  /\ pc = "returned"
  /\ call.fn = "calculate_age"
  /\ call.as_of = Ts(2024, 1, 1, 0)
  /\ \E i \in DOMAIN ret : call.birthdate[i] = D(1990, 1, 15) /\ ret[i] = Num(33)
  /\ \E i \in DOMAIN ret : IsNA(call.birthdate[i]) /\ IsNA(ret[i])

\* C5: the age filter of clean_dataset keeps exactly the deduplicated records
\* whose age is absent or >= minimum_age, and every present age of the output
\* is an integer >= minimum_age (with the default minimum: >= 18, so >= 0)
C5_AgeFilterKeepsAbsentAndOldEnough ==
  /\ [](pc = "done" =>
          \A r \in DOMAIN result.rows :
            LET age == Cell(result, r, c_age)
            IN  \/ IsNA(age)
                \/ /\ age.k = "num"
                   /\ age.v \in Int
                   /\ age.v >= minimum_age
                   /\ (minimum_age = DefaultMinimumAge => age.v >= 18 /\ age.v >= 0))
  /\ [][ pc = "l62" =>
           LET before == heap[working]
               after  == heap'[working']
               age    == Column(before, c_age)
               kept   == {r \in DOMAIN before.rows :
                            IsNA(age[r]) \/ age[r].v >= minimum_age}
           IN  /\ Origins(before) = {i \in DOMAIN df0.rows : FirstOccurrence(i)}
               /\ after.columns = before.columns
               /\ Len(after.rows) = Cardinality(kept)
               /\ \A r \in kept : \E q \in DOMAIN after.rows :
                    after.rows[q] = before.rows[r]
               /\ \A r \in DOMAIN before.rows \ kept :
                    \A q \in DOMAIN after.rows : after.rows[q] # before.rows[r]
       ]_vars

\* clean_dataset returned a record without age and dropped a record for its
\* age
C5_Witness ==
  /\ pc = "done"
  /\ \E r \in DOMAIN result.rows : IsNA(Cell(result, r, c_age))
  /\ \E i \in DOMAIN df0.rows :
       /\ FirstOccurrence(i)
       /\ i \notin Origins(result)

\* tenths is the decimal with one place nearest to days / 365.25
NearestTenth(tenths, days) ==
  LET diff == 1461 * tenths - 40 * days
  IN  2 * diff <= 1461 /\ -2 * diff <= 1461

TenureAbsentOrNonNegative(tenure) ==
  \A i \in DOMAIN tenure :
    IsNA(tenure[i]) \/ (tenure[i].k = "dec" /\ tenure[i].t >= 0)

\* C7: the tenure calculate_tenure_years computes is absent or >= 0, absent
\* when the elapsed days are negative and absent when the hire date is
C7_TenureNeverNegative ==
  /\ (pc = "returned" /\ call.fn = "calculate_tenure_years") =>
       /\ TenureAbsentOrNonNegative(ret)
       /\ \A i \in DOMAIN ret :
            LET hire == call.hire_date[i]
                term == call.termdate[i]
                end  == IF IsDate(term) THEN term.n
                        ELSE Normalise(call.as_of, call.today)
            IN  (~IsDate(hire) \/ end < hire.n) => IsNA(ret[i])
  /\ pc \in {"l71", "l73"} =>
       TenureAbsentOrNonNegative(Column(heap[working], c_tenure_years))
  /\ pc = "done" => TenureAbsentOrNonNegative(Column(result, c_tenure_years))

\* calculate_tenure_years was called with a termination date before the hire
\* date, with a reference date before the hire date and without hire date
C7_Witness ==
  /\ pc = "returned"
  /\ call.fn = "calculate_tenure_years"
  /\ \E i \in DOMAIN ret :
       /\ IsDate(call.hire_date[i])
       /\ \/ /\ IsDate(call.termdate[i])
             /\ call.termdate[i].n < call.hire_date[i].n
          \/ /\ IsNA(call.termdate[i])
             /\ Normalise(call.as_of, call.today) < call.hire_date[i].n
       /\ IsNA(ret[i])
  /\ \E i \in DOMAIN ret : IsNA(call.hire_date[i]) /\ IsNA(ret[i])

\* C8: the required-columns check raises its error exactly when a required
\* name is not among the canonical headers, and the error names every missing
\* required name
C8_SchemaErrorListsEveryMissingColumn ==
  /\ (pc = "returned" /\ call.fn = "validate_required_columns") =>
       LET absent == SeqSet(call.required) \ SeqSet(call.columns)
       IN  /\ ret.type = "ValueError" <=> absent # {}
           /\ ret.type = "ValueError" => SeqSet(ret.names) = absent
           /\ absent = {} => ret = NoError
  /\ (call.fn = "clean_dataset" /\ pc \notin {"l43", "l44", "l45"}) =>
       LET absent == SeqSet(required_columns) \ SeqSet(RawCanon.columns)
       IN  /\ (pc = "raised" /\ err.type = "ValueError") <=> absent # {}
           /\ err.type = "ValueError" => SeqSet(err.names) = absent

\* the check was called with headers that lack two or more required names
C8_Witness ==
  /\ pc = "returned"
  /\ call.fn = "validate_required_columns"
  /\ ret.type = "ValueError"
  /\ Cardinality(SeqSet(ret.names)) >= 2

\* C9: when the canonical headers of the raw table contain every required
\* column, clean_dataset raises no error
C9_ValidSchemaNeverRaises ==
  (call.fn = "clean_dataset"
     /\ SeqSet(required_columns) \subseteq SeqSet(RawCanon.columns))
    => pc # "raised"

\* C10: clean_dataset leaves the table it was given as it was: same column
\* names, same records in the same order, same values
C10_InputNotMutated ==
  call.fn = "clean_dataset" =>
    /\ heap.df.columns = df0.columns
    /\ heap.df.rows = df0.rows

\* clean_dataset returned a table with other headers and fewer records than
\* the one it was given
C10_Witness ==
  /\ pc = "done"
  /\ result.columns # df0.columns
  /\ Len(result.rows) < Len(df0.rows)
  /\ \E r \in DOMAIN result.rows :
       Cell(result, r, c_birthdate) # Cell(RawCanon, Cell(result, r, c_n).v, c_birthdate)

\* C11: a missing required column is fatal and leaves no partial result: the
\* check raises right after the headers are canonicalised, before records are
\* deduplicated or anything else is done to them, clean_dataset returns
\* nothing, and run_pipeline neither validates, writes nor computes analytics
C11_SchemaErrorIsFatal ==
  err.type = "ValueError" =>
    /\ pc = "raised"
    /\ working = "local"
    /\ heap.local = RawCanon
    /\ result = EmptyTable
    /\ pipe.stage \in {"none", "l49", "raised"}
    /\ ~pipe.validated
    /\ ~pipe.written
    /\ pipe.output = EmptyTable
    /\ ~pipe.analysed

\* run_pipeline has ended with the error of the check, on a file in which two
\* records share an identifier
C11_Witness ==
  /\ pipe.stage = "raised"
  /\ err.type = "ValueError"
  /\ c_department \in SeqSet(err.names)
  /\ \E i, j \in DOMAIN df0.rows :
       i < j /\ Cell(RawCanon, i, c_id) = Cell(RawCanon, j, c_id)

\* C12: every value of a title-case column of the output is the raw value
\* with leading and trailing whitespace stripped and then title-cased, so it
\* neither starts nor ends with whitespace
C12_TitleCaseAfterStrip ==
  pc = "done" =>
    \A r \in DOMAIN result.rows :
      \A j \in DOMAIN string_titlecase_columns :
        LET column == string_titlecase_columns[j]
        IN  HasColumn(result, column) =>
              LET raw == Cell(RawCanon, Cell(result, r, c_n).v, column)
                  out == Cell(result, r, column)
              IN  raw.k = "str" =>
                    /\ out = Str(Title(Strip(raw.s)))
                    /\ out.s # <<>> =>
                         ~IsSpace(out.s[1]) /\ ~IsSpace(out.s[Len(out.s)])

\* C13: canonicalising the headers twice gives what canonicalising them once
\* gives; the result has one key per header, the i-th computed from the i-th
\* header alone, without space, "/", "-", non-printable or upper-case character
C13_CanonicalisationIdempotentPositional ==
  (pc = "returned" /\ call.fn = "canonicalise_column_names") =>
    /\ canonicalise_column_names(ret) = ret
    /\ Len(ret) = Len(call.columns)
    /\ \A i \in DOMAIN ret :
         /\ <<ret[i]>> = canonicalise_column_names(<<call.columns[i]>>)
         /\ \A j \in DOMAIN ret[i] :
              /\ ret[i][j] \notin {" ", "/", "-"}
              /\ ~IsSpace(ret[i][j])
              /\ IsPrintable(ret[i][j])
              /\ ~IsUpper(ret[i][j])

\* two headers were canonicalised, one of them with a byte-order mark after a
\* space, which leaves an underscore at the end of its key
C13_Witness ==
  /\ pc = "returned"
  /\ call.fn = "canonicalise_column_names"
  /\ Len(ret) = 2
  /\ \E i \in DOMAIN ret :
       /\ call.columns[i] = <<"B", " ", "BOM">>
       /\ ret[i] = <<"b", "_">>

\* the calendar date at UTC of the instant a timestamp string denotes
UtcDate(c) ==
  LET hour == c.hh - (IF c.tz THEN c.off ELSE 0)
  IN  DaysFromCivil(c.y, c.m, c.d)
        + (IF hour >= 24 THEN 1 ELSE IF hour < 0 THEN -1 ELSE 0)

\* out is what date normalisation may store for the raw value
DateStored(raw, out) ==
  /\ IsNA(out) \/ (out.k = "date" /\ DOMAIN out = {"k", "n"} /\ out.n \in Int)
  /\ raw.k \in {"na", "str"} => IsNA(out)
  /\ (raw.k = "dstr" /\ ~IsNA(out)) => out.n = UtcDate(raw)
  /\ raw.k = "date" => out = raw

\* C14: date normalisation raises no error and stores, for every value of a
\* configured date column, either absent (always so for a missing, empty or
\* unreadable value) or a date without time and offset, which is the calendar
\* date at UTC of the value; every date field of the output of clean_dataset
\* is such a value
C14_DateNormalisationTotal ==
  /\ [](pc \in {"l51", "l57", "l62", "l65", "l71", "l73", "done"} =>
          LET t == IF pc = "done" THEN result ELSE heap[working]
          IN  \A r \in DOMAIN t.rows :
                \A j \in DOMAIN date_columns :
                  HasColumn(t, date_columns[j]) =>
                    DateStored(Cell(RawCanon, Cell(t, r, c_n).v, date_columns[j]),
                               Cell(t, r, date_columns[j])))
  /\ []((pc = "returned" /\ call.fn = "_standardise_dates") =>
          /\ ret.columns = call.df.columns
          /\ Len(ret.rows) = Len(call.df.rows)
          /\ \A r \in DOMAIN ret.rows :
               /\ DateStored(Cell(call.df, r, c_hire_date), Cell(ret, r, c_hire_date))
               /\ Cell(ret, r, c_n) = Cell(call.df, r, c_n)
               /\ Cell(call.df, r, c_hire_date) = DateStr("ts", 2019, 12, 31, 22, TRUE, -5)
                    => Cell(ret, r, c_hire_date) \in {NA, DateCell(18262)})
  /\ [][pc = "l50" => pc' = "l51" /\ err' = err]_vars

\* clean_dataset returned a record whose termination timestamp carries an
\* offset and falls on the next day at UTC, and whose hire date is unreadable
C14_Witness ==
  /\ pc = "done"
  /\ \E r \in DOMAIN result.rows :
       LET raw == Cell(RawCanon, Cell(result, r, c_n).v, c_termdate)
       IN  /\ raw.k = "dstr" /\ raw.tz /\ raw.off # 0
           /\ Cell(result, r, c_termdate) = DateCell(18262)
           /\ DaysFromCivil(raw.y, raw.m, raw.d) = 18261
           /\ IsNA(Cell(result, r, c_hire_date))

\* C15: validation never blocks the output: in every run of run_pipeline in
\* which loading and cleaning succeed, validation runs after cleaning and
\* before writing, and the cleaned table is written and returned, whatever
\* the validation messages are
C15_ValidationNeverBlocksOutput ==
  /\ pipe.validated => pc = "done"
  /\ pipe.written => (pipe.validated /\ pipe.output = result)
  /\ pipe.stage = "returned" => pipe.written
  /\ pipe.stage = "raised" => (err.type = "FileNotFoundError" \/ pc = "raised")

\* the k-th anniversary of a birthdate, in days since the epoch (for a
\* birthdate of 29 February, 1 March in a year that has no 29 February)
Anniversary(birthdate, k) ==
  LET b == CivilFromDays(birthdate)
  IN  DaysFromCivil(b.year + k, b.month, b.day)

\* C16: for as_of >= birthdate the age calculate_age computes is the number
\* of anniversaries of the birthdate that fall on or before as_of; it is
\* >= 0 and at most as_of.year - birthdate.year
C16_AgeIsFullElapsedYears ==
  (pc = "returned" /\ call.fn = "calculate_age") =>
    \A i \in DOMAIN ret :
      LET asof == Normalise(call.as_of, call.today)
          b    == call.birthdate[i]
      IN  (IsDate(b) /\ asof >= b.n) =>
            LET span == CivilFromDays(asof).year - CivilFromDays(b.n).year
                past == {k \in 1..(span + 1) : Anniversary(b.n, k) <= asof}
            IN  /\ ret[i].k = "num"
                /\ ret[i].v = Cardinality(past)
                /\ ret[i].v >= 0
                /\ ret[i].v <= span

\* calculate_age was called on 2024-02-01 for someone whose birthday it is
\* (age 16) and for someone born on 29 February 2000 (age 23)
C16_Witness ==
  /\ pc = "returned"
  /\ call.fn = "calculate_age"
  /\ call.as_of = Ts(2024, 2, 1, 13)
  /\ \E i \in DOMAIN ret : call.birthdate[i] = D(2008, 2, 1) /\ ret[i] = Num(16)
  /\ \E i \in DOMAIN ret : call.birthdate[i] = D(2000, 2, 29) /\ ret[i] = Num(23)

\* C17: tenure is computed before the chronology is enforced and not again:
\* a record whose termination date the enforcer blanks has no tenure_years,
\* so that a present tenure_years of an output record is the tenure from its
\* hire date to its termination date in the output, or to as_of without one
C17_TenureAgreesWithOutputDates ==
  /\ [](pc = "done" =>
          \A r \in DOMAIN result.rows :
            LET tenure == Cell(result, r, c_tenure_years)
                hire   == Cell(result, r, c_hire_date)
                term   == Cell(result, r, c_termdate)
            IN  ~IsNA(tenure) =>
                  /\ IsDate(hire)
                  /\ \E today \in Todays :
                       LET end == IF IsDate(term) THEN term.n
                                  ELSE Normalise(as_of, today)
                       IN  end >= hire.n /\ NearestTenth(tenure.t, end - hire.n))
  /\ [][ pc = "l71" =>
           /\ HasColumn(heap[working], c_tenure_years)
           /\ Column(heap'[working'], c_tenure_years)
                = Column(heap[working], c_tenure_years)
           /\ \A r \in DOMAIN heap[working].rows :
                Cell(heap'[working'], r, c_termdate) # Cell(heap[working], r, c_termdate)
                  => IsNA(Cell(heap[working], r, c_tenure_years)) ]_vars
  /\ [][ pc = "l73" => result' = heap[working] ]_vars

\* clean_dataset returned a record with tenure, and a record with hire date
\* but without tenure whose raw termination date was earlier than the hire
\* date and is blank in the output
C17_Witness ==
  /\ pc = "done"
  /\ \E r \in DOMAIN result.rows : ~IsNA(Cell(result, r, c_tenure_years))
  /\ \E r \in DOMAIN result.rows :
       LET raw == Cell(RawCanon, Cell(result, r, c_n).v, c_termdate)
           hire == Cell(result, r, c_hire_date)
       IN  /\ raw.k = "dstr" /\ IsDate(hire)
           /\ UtcDate(raw) < hire.n
           /\ IsNA(Cell(result, r, c_termdate))
           /\ IsNA(Cell(result, r, c_tenure_years))

\* C18: every row of department_turnover of a table clean_dataset produced
\* has 0 <= terminated_count <= total_headcount and
\* active_count = total_headcount - terminated_count >= 0, so that its
\* turnover_rate lies between 0 and 1, also when a counted record has no
\* employee_id
C18_TurnoverCountsConsistent ==
  (pc = "analysed" /\ call.fn = "department_turnover") =>
    \A i \in DOMAIN ret :
      /\ 0 <= ret[i].terminated_count
      /\ ret[i].terminated_count <= ret[i].total_headcount
      /\ ret[i].active_count = ret[i].total_headcount - ret[i].terminated_count
      /\ ret[i].active_count >= 0
      /\ ret[i].turnover_rate.den > 0 =>
           /\ 0 <= ret[i].turnover_rate.num
           /\ ret[i].turnover_rate.num <= ret[i].turnover_rate.den
      /\ ~IsInfRate(ret[i].turnover_rate)

====
